---- MODULE Spec2Model ----
(***************************************************************************)
(* GitPilot: the command executor (gitpilot/git_executor.py), the          *)
(* repository snapshot reader and context warnings                         *)
(* (gitpilot/context_analyzer.py), the command history (gitpilot/logger.py)*)
(* and the main flow of the command line (gitpilot/cli.py).                *)
(*                                                                         *)
(* Command texts are sequences of characters, each character a one-letter  *)
(* string; the backtick is written "BACKTICK".                             *)
(***************************************************************************)
EXTENDS Integers, Sequences, FiniteSets, TLC

VARIABLES
    repo,         \* the repository on disk and its remote
    pc,           \* where the process is: idle, the CLI's main flow, or ended
    call,         \* the executor / analyzer call made last
    result,       \* what that call returned or raised
    spawned,      \* the command lines handed to subprocess.run, in order
    historyFile,  \* command_history.json
    execHistory,  \* GitExecutor.logger.history (in memory)
    cliHistory,   \* main's logger.history (in memory)
    cli,          \* main's locals: query, ai_response["command"], dry_run, yes
    arg,          \* input of a pure helper applied on its own
    ret           \* what the helper returned

vars == <<repo, pc, call, result, spawned, historyFile, execHistory, cliHistory,
          cli, arg, ret>>

progVars == <<repo, pc, call, result, spawned, historyFile, execHistory,
              cliHistory, cli>>

fnVars == <<arg, ret>>

-----------------------------------------------------------------------------
(* Bounds *)

\* a command text given to a helper is a lead and at most MaxWords words
MaxWords == 2

\* a command text given to the executor is a lead and at most MaxArgs words
MaxArgs == 1

\* commits on the remote branch that the local branch lacks
MaxBehind == 1

\* commits on the local branch that the remote branch lacks
MaxAhead == 1

\* commits of the last seven days
MaxCommits == 11

\* security issues found in the working tree
MaxIssues == 6

\* files in the working directory
MaxFiles == 2

\* issues in a list given to _calculate_security_score
MaxIssueList == 4

\* staged, unstaged and untracked files, and stashes
MaxCount == 1

-----------------------------------------------------------------------------
(* Characters and strings *)

BACKTICK == "BACKTICK"

UpperCase == <<"A","B","C","D","E","F","G","H","I","J","K","L","M",
               "N","O","P","Q","R","S","T","U","V","W","X","Y","Z">>

LowerCase == <<"a","b","c","d","e","f","g","h","i","j","k","l","m",
               "n","o","p","q","r","s","t","u","v","w","x","y","z">>

\* str.strip() with no argument removes leading and trailing whitespace
Whitespace == {" ", "\t", "\n"}

LowerChar(ch) ==
    IF \E i \in 1..26 : UpperCase[i] = ch
    THEN LowerCase[CHOOSE i \in 1..26 : UpperCase[i] = ch]
    ELSE ch

\* str.lower()
lower(s) == [i \in 1..Len(s) |-> LowerChar(s[i])]

\* str.startswith(p)
startswith(s, p) == Len(s) >= Len(p) /\ SubSeq(s, 1, Len(p)) = p

\* p in s
contains(s, p) ==
    \E i \in 0..(Len(s) - Len(p)) : SubSeq(s, i + 1, i + Len(p)) = p

\* str.strip()
strip(s) ==
    LET keep == {i \in 1..Len(s) : s[i] \notin Whitespace}
    IN  IF keep = {} THEN <<>>
        ELSE LET lo == CHOOSE i \in keep : \A j \in keep : i <= j
                 hi == CHOOSE i \in keep : \A j \in keep : i >= j
             IN  SubSeq(s, lo, hi)

git == <<"g","i","t">>

kw_reset == <<"r","e","s","e","t">>
kw_rebase == <<"r","e","b","a","s","e">>
kw_force == <<"f","o","r","c","e">>
kw_clean == <<"c","l","e","a","n">>
kw_push == <<"p","u","s","h">>
kw_pull == <<"p","u","l","l">>

key_reset_hard == <<"r","e","s","e","t"," ","-","-","h","a","r","d">>
key_clean_f == <<"c","l","e","a","n"," ","-","f">>
key_push_force == <<"p","u","s","h"," ","-","-","f","o","r","c","e">>
key_cherry_pick == <<"c","h","e","r","r","y","-","p","i","c","k">>
key_merge_no_ff == <<"m","e","r","g","e"," ","-","-","n","o","-","f","f">>

-----------------------------------------------------------------------------
(* The command texts tried: a lead, then words with a blank between them *)

\* nothing, whitespace only, the tool's name, the tool's name after a blank
Leads == { <<>>, <<" ">>, git \o <<" ">>, <<" ">> \o git \o <<" ">> }

Words ==
    { key_reset_hard,
      <<"r","e","s","e","t"," ","-","-","s","o","f","t">>,
      key_clean_f,
      key_push_force,
      kw_push,
      kw_pull,
      kw_rebase,
      <<"R","E","B","A","S","E">>,
      key_cherry_pick,
      key_merge_no_ff,
      <<"s","t","a","t","u","s">>,
      <<";">>, <<"&","&">>, <<"|","|">>, <<"|">>, <<BACKTICK>>,
      <<"$">>, <<">">>, <<"<">>,
      <<"g","i","t","k">>,
      <<"&">>,
      <<"\n","l","s">> }

RECURSIVE Texts(_)
\* at most n words, a blank between two words
Texts(n) ==
    IF n = 0 THEN {<<>>}
    ELSE LET shorter == Texts(n - 1)
         IN  shorter \cup Words
                     \cup {t \o <<" ">> \o w : t \in shorter \ {<<>>}, w \in Words}

\* the texts the helpers are applied to
HelperCommands == {l \o t : l \in Leads, t \in Texts(MaxWords)}

\* the texts handed to the executor, by a caller or by the text generator
Commands == {l \o t : l \in Leads, t \in Texts(MaxArgs)}

-----------------------------------------------------------------------------
(* GitExecutor: the pure helpers *)

\* GitExecutor.destructive_commands, in insertion order
destructive_commands ==
    << [key |-> key_reset_hard,  warning |-> "This will discard all uncommitted changes"],
       [key |-> key_clean_f,     warning |-> "This will delete untracked files permanently"],
       [key |-> key_push_force,  warning |-> "This will overwrite remote history"],
       [key |-> kw_rebase,       warning |-> "This will rewrite commit history"],
       [key |-> key_cherry_pick, warning |-> "This may create conflicts"],
       [key |-> key_merge_no_ff, warning |-> "This will create a merge commit"] >>

\* the list with the backtick forgotten
dangerous_chars_without_backtick ==
    << <<";">>, <<"&","&">>, <<"|","|">>, <<"|">>, <<"$">>, <<">">>, <<"<">> >>

\* the list in _clean_command, in the order it is searched
dangerous_chars ==
    << <<";">>, <<"&","&">>, <<"|","|">>, <<"|">>, <<BACKTICK>>,
       <<"$">>, <<">">>, <<"<">> >>

\* the warning sign and two blanks that _check_destructive_operations puts first
WarningText(warning) == "(!)  " \o warning

\* _clean_command with the search for dangerous characters left out
_clean_command_unchecked(command) ==
    LET stripped == strip(command)
    IN  [raised |-> FALSE, char |-> <<>>,
         value |-> IF startswith(stripped, git) THEN stripped
                   ELSE git \o <<" ">> \o stripped]

\* _clean_command: strip, put "git " first if the text does not start with git,
\* raise ValueError on the first dangerous character found
_clean_command(command) ==
    LET stripped == strip(command)
        prefixed == IF startswith(stripped, git) THEN stripped
                    ELSE git \o <<" ">> \o stripped
        found == {i \in 1..Len(dangerous_chars) : contains(prefixed, dangerous_chars[i])}
    IN  IF found # {}
        THEN [raised |-> TRUE,
              char |-> dangerous_chars[CHOOSE i \in found : \A j \in found : i <= j],
              value |-> <<>>]
        ELSE [raised |-> FALSE, char |-> <<>>, value |-> prefixed]

\* the keys of the table found in the lower-cased command, in table order
MatchedKeys(command) ==
    SelectSeq(destructive_commands, LAMBDA e : contains(lower(command), e.key))

\* _check_destructive_operations
_check_destructive_operations(command) ==
    LET m == MatchedKeys(command)
    IN  [i \in 1..Len(m) |-> WarningText(m[i].warning)]

\* is_destructive_command with command.lower() forgotten
is_destructive_command_case_sensitive(command) ==
    \E i \in 1..Len(destructive_commands) :
        contains(command, destructive_commands[i].key)

\* is_destructive_command
is_destructive_command(command) ==
    \E i \in 1..Len(destructive_commands) :
        contains(lower(command), destructive_commands[i].key)

-----------------------------------------------------------------------------
(* ContextAnalyzer *)

NotARepo == "Not a Git repository"

\* "Failed to analyze context: " and the text of the exception
FailedToAnalyze == "Failed to analyze context"
UncommittedWarning == "You have uncommitted changes. Consider stashing them first."
BehindWarning == "Your branch is behind remote. Consider pulling first."

\* the repositories the process may find itself in.
\*   kind:     not_repo (git.Repo raised InvalidGitRepositoryError), broken (a
\*             repository on which a query of analyze_context raises before the
\*             remote status is read, such as one without commits), ok
\*   remote:   none (no remote named origin), fetch_fail (fetch raises),
\*             no_ref (fetch works, the branch has no ref on origin or HEAD is
\*             detached), ok
\*   upstream: commits on the remote's branch that the local branch lacks
\*   tracking: the same count for refs/remotes/origin/<branch> as stored locally
\*   ahead:    local commits the remote's branch lacks (read only after the
\*             fetch, when the remote-tracking branch is the remote's)
Repos ==
    { [kind |-> "not_repo", is_dirty |-> FALSE, remote |-> "none",
       upstream |-> 0, tracking |-> 0, ahead |-> 0],
      [kind |-> "broken", is_dirty |-> FALSE, remote |-> "none",
       upstream |-> 0, tracking |-> 0, ahead |-> 0] }
    \cup
    { [kind |-> "ok", is_dirty |-> d, remote |-> r, upstream |-> 0,
       tracking |-> 0, ahead |-> 0] : d \in BOOLEAN, r \in {"none", "fetch_fail"} }
    \cup
    { [kind |-> "ok", is_dirty |-> d, remote |-> "no_ref", upstream |-> u,
       tracking |-> t, ahead |-> 0] :
        d \in BOOLEAN, u \in 0..MaxBehind, t \in 0..MaxBehind }
    \cup
    { [kind |-> "ok", is_dirty |-> d, remote |-> "ok", upstream |-> u,
       tracking |-> t, ahead |-> a] :
        d \in BOOLEAN, u \in 0..MaxBehind, t \in 0..MaxBehind, a \in 0..MaxAhead }

\* the remote only gains commits: what was fetched before is still there
ReposAtStart == {r \in Repos : r.tracking <= r.upstream}

\* origin.fetch(): the remote-tracking refs are rewritten to the remote's
fetch(r) == [r EXCEPT !.tracking = r.upstream]

\* the remote status with up_to_date computed from ahead alone
_get_remote_status_ahead_only(r) ==
    CASE r.kind = "not_repo" ->
           [status |-> [has_remote |-> FALSE], repo |-> r]
      [] r.remote \in {"none", "fetch_fail"} ->
           [status |-> [has_remote |-> FALSE], repo |-> r]
      [] r.remote = "no_ref" ->
           [status |-> [has_remote |-> FALSE], repo |-> fetch(r)]
      [] OTHER ->
           LET after == fetch(r)
               behind == after.tracking
               ahead == after.ahead
           IN  [status |-> [has_remote |-> TRUE, ahead |-> ahead, behind |-> behind,
                            up_to_date |-> (ahead = 0)],
                repo |-> after]

\* _get_remote_status: the status and the repository the call leaves behind.
\* Every exception becomes {"has_remote": False}; what fetch wrote stays.
_get_remote_status(r) ==
    CASE r.kind = "not_repo" ->
           [status |-> [has_remote |-> FALSE], repo |-> r]
      [] r.remote \in {"none", "fetch_fail"} ->
           [status |-> [has_remote |-> FALSE], repo |-> r]
      [] r.remote = "no_ref" ->
           [status |-> [has_remote |-> FALSE], repo |-> fetch(r)]
      [] OTHER ->
           LET after == fetch(r)
               behind == after.tracking
               ahead == after.ahead
           IN  [status |-> [has_remote |-> TRUE, ahead |-> ahead, behind |-> behind,
                            up_to_date |-> (ahead = 0 /\ behind = 0)],
                repo |-> after]

\* analyze_context with a failed remote lookup passed on as an error
analyze_context_remote_fatal(r) ==
    CASE r.kind = "not_repo" ->
           [context |-> [error |-> NotARepo], repo |-> r]
      [] r.kind = "broken" ->
           [context |-> [error |-> FailedToAnalyze], repo |-> r]
      [] OTHER ->
           LET rs == _get_remote_status(r)
           IN  IF rs.status.has_remote
               THEN [context |-> [is_dirty |-> r.is_dirty, remote_status |-> rs.status],
                     repo |-> rs.repo]
               ELSE [context |-> [error |-> FailedToAnalyze], repo |-> rs.repo]

\* analyze_context: {"error": ...} or the context, and the repository left behind
analyze_context(r) ==
    CASE r.kind = "not_repo" ->
           [context |-> [error |-> NotARepo], repo |-> r]
      [] r.kind = "broken" ->
           [context |-> [error |-> FailedToAnalyze], repo |-> r]
      [] OTHER ->
           LET rs == _get_remote_status(r)
           IN  [context |-> [is_dirty |-> r.is_dirty, remote_status |-> rs.status],
                repo |-> rs.repo]

\* the counts of analyze_context that the remote status does not hold: each is
\* the len() of a list read from the index, the working tree or the stash
Counts(staged_files, unstaged_files, untracked_files, stash_count) ==
    [staged_files |-> staged_files, unstaged_files |-> unstaged_files,
     untracked_files |-> untracked_files, stash_count |-> stash_count]

\* the dictionary analyze_context returns, with its counts (branch,
\* is_detached and last_commit are left out: their readers catch every
\* exception)
RepositoryContext(r, counts) ==
    LET context == analyze_context(r).context
    IN  IF "error" \in DOMAIN context THEN context
        ELSE [is_dirty |-> context.is_dirty,
              staged_files |-> counts.staged_files,
              unstaged_files |-> counts.unstaged_files,
              untracked_files |-> counts.untracked_files,
              remote_status |-> context.remote_status,
              stash_count |-> counts.stash_count]

\* any(cmd in command.lower() for cmd in ["reset", "rebase", "force", "clean"])
context_destructive_commands == <<kw_reset, kw_rebase, kw_force, kw_clean>>

ContextDestructive(command) ==
    \E i \in 1..Len(context_destructive_commands) :
        contains(lower(command), context_destructive_commands[i])

\* context["remote_status"]["behind"] raises KeyError on {"has_remote": False}
HasBehind(context) == "behind" \in DOMAIN context.remote_status

\* get_context_warnings: the list returned, or the KeyError raised, and the
\* repository left behind by the snapshot
get_context_warnings(command, r) ==
    LET ac == analyze_context(r)
        context == ac.context
        isErr == "error" \in DOMAIN context
        destr == ContextDestructive(command)
        push == contains(lower(command), kw_push)
        pull == contains(lower(command), kw_pull)
        readsBehind == destr \/ push
        w1 == IF destr /\ context.is_dirty THEN <<UncommittedWarning>> ELSE <<>>
        w2 == IF destr /\ context.remote_status.behind > 0 THEN <<BehindWarning>> ELSE <<>>
        w3 == IF push /\ context.remote_status.behind > 0 THEN <<BehindWarning>> ELSE <<>>
        w4 == IF pull /\ context.is_dirty THEN <<UncommittedWarning>> ELSE <<>>
    IN  IF isErr
        THEN [raised |-> FALSE, exc |-> "", warnings |-> <<context.error>>, repo |-> ac.repo]
        ELSE IF readsBehind /\ ~HasBehind(context)
        THEN [raised |-> TRUE, exc |-> "KeyError", warnings |-> <<>>, repo |-> ac.repo]
        ELSE [raised |-> FALSE, exc |-> "",
              warnings |-> w1 \o w2 \o w3 \o w4, repo |-> ac.repo]

-----------------------------------------------------------------------------
(* RepositoryHealthMonitor: the health score *)

\* sizes are megabytes rounded to two places (round(x, 2)) and ratios are
\* rounded to two places: both are counted in hundredths
MB(n) == n * 100
Ratio(hundredths) == hundredths

\* what the collectors of get_repository_health_stats measured
Stats(total_size_mb, commits_last_week, security_issues, has_gitignore, tracking_ratio) ==
    [repo_size |-> [total_size_mb |-> total_size_mb],
     commit_activity |-> [commits_last_week |-> commits_last_week],
     security_issues |-> security_issues,
     performance_metrics |-> [has_gitignore |-> has_gitignore,
                              tracking_ratio |-> tracking_ratio]]

\* statistics whose size is None: size_mb < 50 raises TypeError
MalformedStats ==
    [repo_size |-> [total_size_mb_is_none |-> TRUE],
     commit_activity |-> [commits_last_week |-> 0],
     security_issues |-> 0,
     performance_metrics |-> [has_gitignore |-> FALSE, tracking_ratio |-> 0]]

WellFormed(stats) == "total_size_mb" \in DOMAIN stats.repo_size

\* the size score with the boundaries on the wrong side
size_score_inclusive(size_mb) ==
    IF size_mb <= MB(50) THEN 100
    ELSE IF size_mb <= MB(200) THEN 80
    ELSE IF size_mb <= MB(500) THEN 60
    ELSE IF size_mb <= MB(1000) THEN 40
    ELSE 20

\* repo_health.py 105-115
size_score(size_mb) ==
    IF size_mb < MB(50) THEN 100
    ELSE IF size_mb < MB(200) THEN 80
    ELSE IF size_mb < MB(500) THEN 60
    ELSE IF size_mb < MB(1000) THEN 40
    ELSE 20

\* the activity score with 35 for a week without commits
activity_score_inactive_35(recent_commits) ==
    IF recent_commits > 10 THEN 100
    ELSE IF recent_commits > 5 THEN 80
    ELSE IF recent_commits > 0 THEN 60
    ELSE 35

\* repo_health.py 118-127
activity_score(recent_commits) ==
    IF recent_commits > 10 THEN 100
    ELSE IF recent_commits > 5 THEN 80
    ELSE IF recent_commits > 0 THEN 60
    ELSE 30

\* repo_health.py 130-138; security_issues is len(stats["security_issues"])
security_score(security_issues) ==
    IF security_issues = 0 THEN 100
    ELSE IF security_issues < 3 THEN 70
    ELSE IF security_issues < 6 THEN 50
    ELSE 20

min(a, b) == IF a < b THEN a ELSE b

\* repo_health.py 141-151
performance_score(has_gitignore, tracking_ratio) ==
    LET perf_score == 50 + (IF has_gitignore THEN 25 ELSE 0)
                         + (IF tracking_ratio > Ratio(80) THEN 25 ELSE 0)
    IN  min(perf_score, 100)

\* round(x) of Python for x = tenths / 10, x >= 0: to the nearest integer, a
\* half to the even one. (The sums of the scores below are whole numbers and
\* the floating-point sum is within 1e-13 of them, so no sum falls on a half.)
round(tenths) ==
    LET q == tenths \div 10
        r == tenths % 10
    IN  IF r < 5 THEN q
        ELSE IF r > 5 THEN q + 1
        ELSE IF q % 2 = 0 THEN q ELSE q + 1

\* the overall score with the weights of size and activity exchanged
overall_score_weights_exchanged(size, activity, security, performance) ==
    round(3 * size + 2 * activity + 3 * security + 2 * performance)

\* repo_health.py 154-159: round(size*0.2 + activity*0.3 + security*0.3 + performance*0.2)
overall_score(size, activity, security, performance) ==
    round(2 * size + 3 * activity + 3 * security + 2 * performance)

Scores(overall, size, activity, security, performance) ==
    [overall_score |-> overall, size_score |-> size, activity_score |-> activity,
     security_score |-> security, performance_score |-> performance]

\* _calculate_health_scores: any exception gives the dictionary of zeros
_calculate_health_scores(stats) ==
    IF ~WellFormed(stats) THEN Scores(0, 0, 0, 0, 0)
    ELSE
    LET size == size_score(stats.repo_size.total_size_mb)
        activity == activity_score(stats.commit_activity.commits_last_week)
        security == security_score(stats.security_issues)
        performance == performance_score(stats.performance_metrics.has_gitignore,
                                         stats.performance_metrics.tracking_ratio)
    IN  Scores(overall_score(size, activity, security, performance),
               size, activity, security, performance)

CleanUpLargeFiles == "Consider cleaning up large files or using Git LFS"
FixSecurityIssues == "Review and fix security issues found in the repository"
AddGitignore == "Add a .gitignore file to improve repository performance"

\* the fallback analysis with the size recommendation given below 80
_basic_health_analysis_size_below_80(stats, scores) ==
    LET r1 == IF scores.size_score < 80 THEN <<CleanUpLargeFiles>> ELSE <<>>
        r2 == IF scores.security_score < 80 THEN <<FixSecurityIssues>> ELSE <<>>
        r3 == IF ~stats.performance_metrics.has_gitignore THEN <<AddGitignore>> ELSE <<>>
    IN  [overall_health |-> "poor", health_score |-> scores.overall_score,
         recommendations |-> r1 \o r2 \o r3]

\* _basic_health_analysis: the level and the recommendations
_basic_health_analysis(stats, scores) ==
    LET overall == scores.overall_score
        health_level == IF overall >= 90 THEN "excellent"
                        ELSE IF overall >= 75 THEN "good"
                        ELSE IF overall >= 60 THEN "fair"
                        ELSE "poor"
        r1 == IF scores.size_score < 60 THEN <<CleanUpLargeFiles>> ELSE <<>>
        r2 == IF scores.security_score < 80 THEN <<FixSecurityIssues>> ELSE <<>>
        r3 == IF ~stats.performance_metrics.has_gitignore THEN <<AddGitignore>> ELSE <<>>
    IN  [overall_health |-> health_level, health_score |-> overall,
         recommendations |-> r1 \o r2 \o r3]

\* get_repository_health_stats: the error, or what the collectors measured
\* (each collector catches its own exceptions and returns its default)
get_repository_health_stats(r, measured) ==
    IF r.kind = "not_repo" THEN [error |-> NotARepo] ELSE measured

\* get_comprehensive_health_report without a text generator
get_comprehensive_health_report(r, measured) ==
    LET health_stats == get_repository_health_stats(r, measured)
    IN  IF "error" \in DOMAIN health_stats THEN health_stats
        ELSE LET scores == _calculate_health_scores(health_stats)
             IN  [stats |-> health_stats, scores |-> scores,
                  ai_analysis |-> _basic_health_analysis(health_stats, scores)]

-----------------------------------------------------------------------------
(* RepositoryHealthMonitor: the security scan *)

max(a, b) == IF a > b THEN a ELSE b

\* the number of issues of a list with the given severity
CountSeverity(security_issues, severity) ==
    Cardinality({i \in 1..Len(security_issues) : security_issues[i].severity = severity})

\* the weighted score without its floor
_calculate_security_score_without_floor(security_issues) ==
    IF security_issues = <<>> THEN 100
    ELSE 100 - CountSeverity(security_issues, "high") * 30
             - CountSeverity(security_issues, "medium") * 15
             - CountSeverity(security_issues, "low") * 5

\* _calculate_security_score
_calculate_security_score(security_issues) ==
    IF security_issues = <<>> THEN 100
    ELSE LET high_severity == CountSeverity(security_issues, "high")
             medium_severity == CountSeverity(security_issues, "medium")
             low_severity == CountSeverity(security_issues, "low")
             score == 100 - (high_severity * 30) - (medium_severity * 15)
                          - (low_severity * 5)
         IN  max(score, 0)

\* the secret types of secret_patterns, in the order they are tried
secret_patterns == <<"API Key", "Secret Key", "Password", "Token">>

\* the suffixes of the files whose content is searched
scanned_suffixes == {".py", ".js", ".ts", ".env", ".config", ".json", ".yaml", ".yml"}

\* sensitive_patterns, in the order they are tried: a pattern names a whole
\* file name or, after the star, a suffix
sensitive_patterns ==
    << [pattern |-> "*.key", name |-> "", suffix |-> ".key",
        description |-> "Private key file"],
       [pattern |-> "*.pem", name |-> "", suffix |-> ".pem",
        description |-> "Certificate file"],
       [pattern |-> ".env", name |-> ".env", suffix |-> "",
        description |-> "Environment file with secrets"],
       [pattern |-> "*.p12", name |-> "", suffix |-> ".p12",
        description |-> "Certificate file"],
       [pattern |-> "id_rsa", name |-> "id_rsa", suffix |-> "",
        description |-> "SSH private key"],
       [pattern |-> "*.pfx", name |-> "", suffix |-> ".pfx",
        description |-> "Certificate file"] >>

RemoveSecrets == "Review and remove hardcoded secrets"
AddRemote == "Consider adding a remote repository for backup"
ScanRegularly == "Regularly scan for secrets and sensitive data"
UseGitignore == "Use .gitignore to exclude sensitive files"
UseHooks == "Consider using Git hooks to prevent committing secrets"

\* an issue; file is the place of the file in the walk of the tree (0: none)
\* and recommendation is "" when the dictionary has no such key
Issue(type, severity, file, description, recommendation) ==
    [type |-> type, severity |-> severity, file |-> file,
     description |-> description, recommendation |-> recommendation]

\* a file of the working directory: its name, its suffix (Path.suffix: a name
\* that is only a leading dot and letters has none), the secret patterns its
\* content matches, and whether it can be opened
File(name, suffix, matches, readable) ==
    [name |-> name, suffix |-> suffix, matches |-> matches, readable |-> readable]

\* the issue of a secret type found in the i-th file
SecretIssue(i, secret_type) ==
    Issue("potential_secret", "high", i, secret_patterns[secret_type], RemoveSecrets)

\* the inner loop without its break: one issue for every pattern that matches
SecretIssuesOfFile_without_break(f, i) ==
    IF f.suffix \in scanned_suffixes /\ f.readable
    THEN LET hits == SelectSeq(<<1, 2, 3, 4>>, LAMBDA k : k \in f.matches)
         IN  [k \in 1..Len(hits) |-> SecretIssue(i, hits[k])]
    ELSE <<>>

\* repo_health.py 215-232: the first pattern that matches is reported, once
SecretIssuesOfFile(f, i) ==
    IF f.suffix \in scanned_suffixes /\ f.readable /\ f.matches # {}
    THEN <<SecretIssue(i, CHOOSE k \in f.matches : \A j \in f.matches : k <= j)>>
    ELSE <<>>

RECURSIVE ScanFrom(_, _)
\* the loop over repo_path.rglob('*'), from the i-th file on
ScanFrom(tree, i) ==
    IF i > Len(tree) THEN <<>>
    ELSE SecretIssuesOfFile(tree[i], i) \o ScanFrom(tree, i + 1)

\* _scan_for_secrets: walks Path(self.repo_path), a repository or not
_scan_for_secrets(tree) == ScanFrom(tree, 1)

\* the name matches the pattern (rglob)
MatchesPattern(f, p) ==
    IF p.name # "" THEN f.name = p.name ELSE f.suffix = p.suffix

\* _check_security_issues: one issue for every pattern with matching files;
\* without a repository self.repo.working_dir raises and [] is returned
_check_security_issues(r, tree) ==
    IF r.kind = "not_repo" THEN <<>>
    ELSE LET found == SelectSeq(sensitive_patterns,
                                LAMBDA p : \E i \in 1..Len(tree) :
                                               MatchesPattern(tree[i], p))
         IN  [k \in 1..Len(found) |->
                 Issue("sensitive_files", "high", 0, found[k].description, "")]

\* _scan_for_sensitive_files
_scan_for_sensitive_files(r, tree) == _check_security_issues(r, tree)

\* _check_git_configuration: without a repository self.context_analyzer.repo
\* is None, the attribute lookup raises and [] is returned
_check_git_configuration(r) ==
    IF r.kind = "not_repo" THEN <<>>
    ELSE IF r.remote = "none"
    THEN <<Issue("configuration", "medium", 0, "No remote repositories configured",
                 AddRemote)>>
    ELSE <<>>

\* _get_security_recommendations: list(set) has no order that can be relied on
_get_security_recommendations(security_issues) ==
    {security_issues[i].recommendation :
        i \in {j \in 1..Len(security_issues) : security_issues[j].recommendation # ""}}
    \cup {ScanRegularly, UseGitignore, UseHooks}

\* get_security_scan_results
get_security_scan_results(r, tree) ==
    LET issues == _scan_for_secrets(tree) \o _scan_for_sensitive_files(r, tree)
                      \o _check_git_configuration(r)
    IN  [security_issues |-> issues,
         security_score |-> _calculate_security_score(issues),
         recommendations |-> _get_security_recommendations(issues)]

-----------------------------------------------------------------------------
(* GitExecutor.execute *)

WouldExecute == <<"W","o","u","l","d"," ","e","x","e","c","u","t","e",":"," ">>

InvalidGitCommand == "Invalid Git command"
\* the timeout message without the bound
TimedOut_without_bound == "Command timed out"

TimedOut == "Command timed out after 30 seconds"

\* "Command execution failed: " and the text of the exception
ExecutionFailed == "Command execution failed"

\* what subprocess.run may do with a command line: the process exits with a
\* return code, having written stdout and stderr; it outlives the 30 seconds
\* (TimeoutExpired); or it cannot be started (another exception)
Outcomes ==
    { [kind |-> "exit", returncode |-> 0, stdout |-> <<"o","k">>, stderr |-> ""],
      [kind |-> "exit", returncode |-> 0, stdout |-> <<"o","k">>, stderr |-> "hint"],
      [kind |-> "exit", returncode |-> 1, stdout |-> <<"o","u","t">>, stderr |-> "fatal"],
      [kind |-> "timeout", returncode |-> 0, stdout |-> <<>>, stderr |-> ""],
      [kind |-> "oserror", returncode |-> 0, stdout |-> <<>>, stderr |-> ""] }

NoOutcome == [kind |-> "none", returncode |-> 0, stdout |-> <<>>, stderr |-> ""]

\* a result dictionary; keys names the keys the dictionary has
Dict(success, output, error, executed, warnings, keys, return_code) ==
    [success |-> success, output |-> output, error |-> error, executed |-> executed,
     warnings |-> warnings, keys |-> keys, return_code |-> return_code]

NoDict == Dict(FALSE, <<>>, "", FALSE, <<>>, {}, 0)

BaseKeys == {"success", "output", "error", "executed"}

\* an entry of the command history (the timestamp left out)
Entry(user_input, git_command, success, output, error) ==
    [user_input |-> user_input, git_command |-> git_command, success |-> success,
     output |-> output, error |-> error]

\* a command line handed to subprocess.run, whether a process started, and
\* what the process did
Spawn(command, started, o) == [command |-> command, started |-> started, outcome |-> o]

\* what a call of execute does: the dictionary returned or the exception
\* raised, the command lines handed to subprocess.run, the entries handed to
\* self.logger.log_command, and the repository left behind
Done(raised, exc, dict, spawn, logged, r) ==
    [raised |-> raised, exc |-> exc, dict |-> dict, spawn |-> spawn,
     logged |-> logged, repo |-> r]

\* success that also asks for a silent standard error
Success_quiet(o) == o.returncode = 0 /\ o.stderr = ""

\* success = result.returncode == 0
Success(o) == o.returncode = 0

\* the error of the result with the standard error kept on success
ResultError_stderr(success, stderr) == stderr

\* "error": result.stderr if not success else ""
ResultError(success, stderr) == IF success THEN "" ELSE stderr

\* the guard with the test for the tool's name forgotten
InvalidCommand_empty_only(command) == command = <<>>

\* the guard of execute: not command or not command.strip().startswith("git")
InvalidCommand(command) == command = <<>> \/ ~startswith(strip(command), git)

execute(command, dry_run, r, o) ==
    IF InvalidCommand(command)
    THEN Done(FALSE, "", Dict(FALSE, <<>>, InvalidGitCommand, FALSE, <<>>, BaseKeys, 0),
              <<>>, <<>>, r)
    ELSE
    LET cc == _clean_command(command)
    IN  IF cc.raised THEN Done(TRUE, "ValueError", NoDict, <<>>, <<>>, r)
    ELSE
    LET clean_command == cc.value
        warnings == _check_destructive_operations(clean_command)
        cw == get_context_warnings(clean_command, r)
    IN  IF cw.raised THEN Done(TRUE, cw.exc, NoDict, <<>>, <<>>, cw.repo)
    ELSE
    LET all_warnings == warnings \o cw.warnings
    IN  IF dry_run
        THEN Done(FALSE, "",
                  Dict(TRUE, WouldExecute \o clean_command, "", FALSE, all_warnings,
                       BaseKeys \cup {"warnings", "preview"}, 0),
                  <<>>, <<>>, cw.repo)
        ELSE
        CASE o.kind = "exit" ->
               LET success == Success(o)
                   error == ResultError(success, o.stderr)
               IN  Done(FALSE, "",
                        Dict(success, o.stdout, error, TRUE, all_warnings,
                             BaseKeys \cup {"warnings", "return_code"}, o.returncode),
                        <<Spawn(clean_command, TRUE, o)>>,
                        <<Entry("", clean_command, success, o.stdout, error)>>,
                        cw.repo)
          [] o.kind = "timeout" ->
               Done(FALSE, "", Dict(FALSE, <<>>, TimedOut, FALSE, <<>>, BaseKeys, 0),
                    <<Spawn(clean_command, TRUE, o)>>, <<>>, cw.repo)
          [] OTHER ->
               Done(FALSE, "", Dict(FALSE, <<>>, ExecutionFailed, FALSE, <<>>, BaseKeys, 0),
                    <<Spawn(clean_command, FALSE, o)>>, <<>>, cw.repo)

\* preview_command
preview_command(command, r) == execute(command, TRUE, r, NoOutcome)

-----------------------------------------------------------------------------
(* GitPilotLogger *)

\* log_command: self.history.append(entry), then _save_history() writes the
\* whole list over the file. Returns the list and the file.
log_command(history, entry) ==
    LET appended == Append(history, entry)
    IN  [history |-> appended, file |-> appended]

RECURSIVE log_commands(_, _, _)
\* the entries one call of execute logs, one after the other
log_commands(history, file, entries) ==
    IF entries = <<>> THEN [history |-> history, file |-> file]
    ELSE LET l == log_command(history, Head(entries))
         IN  log_commands(l.history, l.file, Tail(entries))

-----------------------------------------------------------------------------
(* The process: a caller of the library, or the command line's main *)

NoCall == [op |-> "none", command |-> <<>>, dry_run |-> FALSE]
NoResult == [kind |-> "none", exc |-> "", dict |-> NoDict, warnings |-> <<>>]
NoCli == [query |-> "", command |-> <<>>, dry_run |-> FALSE, yes |-> FALSE]
NoArg == <<>>
NoRet == [op |-> "none"]

\* the result of a finished call of execute
ResultOf(x) ==
    [kind |-> IF x.raised THEN "raise" ELSE "return", exc |-> x.exc,
     dict |-> x.dict, warnings |-> x.dict.warnings]

Init ==
    /\ repo \in ReposAtStart
    /\ pc = "idle"
    /\ call = NoCall
    /\ result = NoResult
    /\ spawned = <<>>
    /\ historyFile = <<>>
    /\ execHistory = <<>>
    /\ cliHistory = <<>>
    /\ cli = NoCli
    /\ arg = NoArg
    /\ ret = NoRet

\* subprocess.run is reached only when dry_run is false
OutcomesFor(dry_run) == IF dry_run THEN {NoOutcome} ELSE Outcomes

\* a caller constructs GitExecutor and calls execute(command, dry_run)
Execute ==
    /\ pc = "idle"
    /\ \E command \in Commands, dry_run \in BOOLEAN :
       \E o \in OutcomesFor(dry_run) :
       \E x \in {execute(command, dry_run, repo, o)} :
       \E l \in {log_commands(execHistory, historyFile, x.logged)} :
           /\ call' = [op |-> "execute", command |-> command, dry_run |-> dry_run]
           /\ result' = ResultOf(x)
           /\ spawned' = spawned \o x.spawn
           /\ repo' = x.repo
           /\ execHistory' = l.history
           /\ historyFile' = l.file
           /\ pc' = IF x.raised THEN "raised" ELSE "returned"
    /\ UNCHANGED <<cliHistory, cli, arg, ret>>

\* a caller constructs ContextAnalyzer and calls get_context_warnings(command)
GetContextWarnings ==
    /\ pc = "idle"
    /\ \E command \in Commands :
       \E x \in {get_context_warnings(command, repo)} :
           /\ call' = [op |-> "get_context_warnings", command |-> command,
                       dry_run |-> FALSE]
           /\ result' = [kind |-> IF x.raised THEN "raise" ELSE "return",
                         exc |-> x.exc, dict |-> NoDict, warnings |-> x.warnings]
           /\ repo' = x.repo
           /\ pc' = IF x.raised THEN "raised" ELSE "returned"
    /\ UNCHANGED <<spawned, historyFile, execHistory, cliHistory, cli, arg, ret>>

\* main, cli.py 88-107: the options are parsed, the logger loads the history,
\* and a directory that is no repository ends the process
MainStart ==
    /\ pc = "idle"
    /\ \E dry_run \in BOOLEAN, yes \in BOOLEAN :
           cli' = [query |-> "query", command |-> <<>>, dry_run |-> dry_run, yes |-> yes]
    /\ cliHistory' = historyFile
    /\ pc' = IF repo.kind = "not_repo" THEN "exit_not_repo" ELSE "ready"
    /\ UNCHANGED <<repo, call, result, spawned, historyFile, execHistory, arg, ret>>

\* main, cli.py 133-145: the context is read, the text generator answers; no
\* command ends the process, otherwise GitExecutor is constructed
MainGenerate ==
    /\ pc = "ready"
    /\ repo' = analyze_context(repo).repo
    /\ \E command \in Commands :
        /\ cli' = [cli EXCEPT !.command = command]
        /\ IF command = <<>>
           THEN pc' = "exit_no_command" /\ UNCHANGED execHistory
           ELSE pc' = "generated" /\ execHistory' = historyFile
    /\ UNCHANGED <<call, result, spawned, historyFile, cliHistory, arg, ret>>

\* main, cli.py 147-149: --dry-run previews the command
MainPreview ==
    /\ pc = "generated"
    /\ cli.dry_run
    /\ \E x \in {preview_command(cli.command, repo)} :
           /\ call' = [op |-> "preview_command", command |-> cli.command,
                       dry_run |-> TRUE]
           /\ result' = ResultOf(x)
           /\ spawned' = spawned \o x.spawn
           /\ repo' = x.repo
           /\ pc' = IF x.raised THEN "crashed" ELSE "done"
    /\ UNCHANGED <<historyFile, execHistory, cliHistory, cli, arg, ret>>

\* the question never asked
NeedsConfirm_never == FALSE

\* main, cli.py 151-155: a destructive command without --yes is asked about
NeedsConfirm == is_destructive_command(cli.command) /\ ~cli.yes

\* main, cli.py 153-157 and 168-169: the user answers the question
MainConfirm ==
    /\ pc = "generated"
    /\ ~cli.dry_run
    /\ NeedsConfirm
    /\ \E answer \in BOOLEAN : pc' = IF answer THEN "confirmed" ELSE "cancelled"
    /\ UNCHANGED <<repo, call, result, spawned, historyFile, execHistory,
                   cliHistory, cli, arg, ret>>

\* should_execute that also holds after a command that failed
should_execute_or_failed ==
    \/ pc = "generated" /\ ~cli.dry_run /\ ~NeedsConfirm
    \/ pc = "confirmed"
    \/ pc = "done" /\ ~cli.dry_run /\ ~result.dict.success

\* main, cli.py 151-157: should_execute is true without a question, or the
\* user's answer to the question
should_execute ==
    \/ pc = "generated" /\ ~cli.dry_run /\ ~NeedsConfirm
    \/ pc = "confirmed"

\* main, cli.py 157-167: the command is executed and main's logger logs it
MainExecute ==
    /\ should_execute
    /\ \E o \in Outcomes :
       \E x \in {execute(cli.command, FALSE, repo, o)} :
       \E l \in {log_commands(execHistory, historyFile, x.logged)} :
       \E m \in {log_command(cliHistory,
                             Entry(cli.query, cli.command, x.dict.success,
                                   x.dict.output, x.dict.error))} :
           /\ call' = [op |-> "execute", command |-> cli.command, dry_run |-> FALSE]
           /\ result' = ResultOf(x)
           /\ spawned' = spawned \o x.spawn
           /\ repo' = x.repo
           /\ execHistory' = l.history
           /\ IF x.raised
              THEN /\ pc' = "crashed"
                   /\ historyFile' = l.file
                   /\ UNCHANGED cliHistory
              ELSE /\ pc' = "done"
                   /\ cliHistory' = m.history
                   /\ historyFile' = m.file
    /\ UNCHANGED <<cli, arg, ret>>

\* the library used by a caller: one call of the executor or of the analyzer
Next == Execute \/ GetContextWarnings

Spec == Init /\ [][Next]_vars

\* the command line: one run of main
MainNext == MainStart \/ MainGenerate \/ MainPreview \/ MainConfirm \/ MainExecute

MainSpec == Init /\ [][MainNext]_vars

-----------------------------------------------------------------------------
(* The executor's helpers applied on their own *)

HelperInit ==
    /\ arg \in HelperCommands
    /\ ret = NoRet
    /\ repo \in {r \in ReposAtStart : r.kind = "not_repo"}  \* no helper reads it
    /\ pc = "helpers"
    /\ call = NoCall
    /\ result = NoResult
    /\ spawned = <<>>
    /\ historyFile = <<>>
    /\ execHistory = <<>>
    /\ cliHistory = <<>>
    /\ cli = NoCli

CleanCommand ==
    /\ ret.op = "none"
    /\ ret' = [op |-> "_clean_command", out |-> _clean_command(arg)]
    /\ UNCHANGED <<arg, progVars>>

CheckDestructive ==
    /\ ret.op = "none"
    /\ ret' = [op |-> "_check_destructive_operations",
               out |-> _check_destructive_operations(arg)]
    /\ UNCHANGED <<arg, progVars>>

IsDestructive ==
    /\ ret.op = "none"
    /\ ret' = [op |-> "is_destructive_command", out |-> is_destructive_command(arg)]
    /\ UNCHANGED <<arg, progVars>>

HelperNext == CleanCommand \/ CheckDestructive \/ IsDestructive

HelperSpec == HelperInit /\ [][HelperNext]_vars

-----------------------------------------------------------------------------
(* The health monitor applied to what the collectors measured *)

\* sizes on both sides of every threshold, in hundredths of a megabyte
SizesMb ==
    {0, MB(50) - 1, MB(50), MB(200) - 1, MB(200), MB(500) - 1, MB(500),
     MB(1000) - 1, MB(1000)}

\* tracking ratios on both sides of 0.8
TrackingRatios == {Ratio(0), Ratio(80), Ratio(81), Ratio(100)}

StatsInputs ==
    { Stats(s, c, i, g, t) : s \in SizesMb, c \in 0..MaxCommits, i \in 0..MaxIssues,
                             g \in BOOLEAN, t \in TrackingRatios }
    \cup {MalformedStats}

HealthRepos ==
    {r \in ReposAtStart : r.kind # "ok" \/ (r.remote = "none" /\ ~r.is_dirty)}

HealthInit ==
    /\ arg \in StatsInputs
    /\ ret = NoRet
    /\ repo \in HealthRepos
    /\ pc = "health"
    /\ call = NoCall
    /\ result = NoResult
    /\ spawned = <<>>
    /\ historyFile = <<>>
    /\ execHistory = <<>>
    /\ cliHistory = <<>>
    /\ cli = NoCli

CalculateHealthScores ==
    /\ ret.op = "none"
    /\ ret' = [op |-> "_calculate_health_scores", out |-> _calculate_health_scores(arg)]
    /\ UNCHANGED <<arg, progVars>>

GetRepositoryHealthStats ==
    /\ ret.op = "none"
    /\ ret' = [op |-> "get_repository_health_stats",
               out |-> get_repository_health_stats(repo, arg)]
    /\ UNCHANGED <<arg, progVars>>

GetComprehensiveHealthReport ==
    /\ ret.op = "none"
    /\ ret' = [op |-> "get_comprehensive_health_report",
               out |-> get_comprehensive_health_report(repo, arg)]
    /\ UNCHANGED <<arg, progVars>>

HealthNext ==
    CalculateHealthScores \/ GetRepositoryHealthStats \/ GetComprehensiveHealthReport

HealthSpec == HealthInit /\ [][HealthNext]_vars

-----------------------------------------------------------------------------
(* The security scan applied to a working directory, and the weighted score
   applied to a list of issues *)

FileKinds ==
    { File("settings.py", ".py", {1, 3}, TRUE),
      File("config.json", ".json", {4}, TRUE),
      File(".env", "", {3}, TRUE),
      File("server.key", ".key", {}, TRUE),
      File("notes.txt", ".txt", {2}, TRUE),
      File("locked.yml", ".yml", {1}, FALSE) }

RECURSIVE SeqsUpTo(_, _)
\* the sequences of at most n elements of S
SeqsUpTo(S, n) ==
    IF n = 0 THEN {<<>>}
    ELSE LET shorter == SeqsUpTo(S, n - 1)
         IN  shorter \cup {Append(t, x) : t \in shorter, x \in S}

\* the working directory in the order rglob walks it
Trees == SeqsUpTo(FileKinds, MaxFiles)

\* "none": an issue without a severity, or with another one
Severities == {"high", "medium", "low", "none"}

IssueLists == SeqsUpTo({Issue("listed", v, 0, "", "") : v \in Severities}, MaxIssueList)

ScanInputs ==
    {[tree |-> t, issues |-> <<>>] : t \in Trees}
    \cup {[tree |-> <<>>, issues |-> l] : l \in IssueLists}

ScanRepos ==
    {r \in ReposAtStart :
        \/ r.kind = "not_repo"
        \/ r.kind = "ok" /\ ~r.is_dirty /\ r.remote \in {"none", "ok"}
               /\ r.upstream = 0 /\ r.ahead = 0}

ScanInit ==
    /\ arg \in ScanInputs
    /\ ret = NoRet
    /\ repo \in ScanRepos
    /\ pc = "scan"
    /\ call = NoCall
    /\ result = NoResult
    /\ spawned = <<>>
    /\ historyFile = <<>>
    /\ execHistory = <<>>
    /\ cliHistory = <<>>
    /\ cli = NoCli

GetSecurityScanResults ==
    /\ ret.op = "none"
    /\ ret' = [op |-> "get_security_scan_results",
               out |-> get_security_scan_results(repo, arg.tree)]
    /\ UNCHANGED <<arg, progVars>>

CalculateSecurityScore ==
    /\ ret.op = "none"
    /\ ret' = [op |-> "_calculate_security_score",
               out |-> _calculate_security_score(arg.issues)]
    /\ UNCHANGED <<arg, progVars>>

\* _calculate_health_scores on statistics whose security_issues is the list
ScoreIssues ==
    /\ ret.op = "none"
    /\ ret' = [op |-> "_calculate_health_scores",
               out |-> _calculate_health_scores(
                           Stats(0, 0, Len(arg.issues), FALSE, Ratio(0)))]
    /\ UNCHANGED <<arg, progVars>>

ScanNext == GetSecurityScanResults \/ CalculateSecurityScore \/ ScoreIssues

ScanSpec == ScanInit /\ [][ScanNext]_vars

-----------------------------------------------------------------------------
(* The analyzer applied to a repository *)

\* what the index, the working tree and the stash hold; is_dirty is true
\* exactly when a tracked file is staged or changed
AllCounts ==
    { Counts(s, u, t, k) : s \in 0..MaxCount, u \in 0..MaxCount,
                           t \in 0..MaxCount, k \in 0..MaxCount }

CountsFor(r) ==
    {c \in AllCounts : r.kind = "ok" => (r.is_dirty <=> c.staged_files + c.unstaged_files > 0)}

ContextInit ==
    /\ repo \in ReposAtStart
    /\ arg \in CountsFor(repo)
    /\ ret = NoRet
    /\ pc = "context"
    /\ call = NoCall
    /\ result = NoResult
    /\ spawned = <<>>
    /\ historyFile = <<>>
    /\ execHistory = <<>>
    /\ cliHistory = <<>>
    /\ cli = NoCli

AnalyzeContext ==
    /\ ret.op = "none"
    /\ ret' = [op |-> "analyze_context", out |-> RepositoryContext(repo, arg)]
    /\ repo' = analyze_context(repo).repo
    /\ UNCHANGED <<arg, pc, call, result, spawned, historyFile, execHistory,
                   cliHistory, cli>>

ContextNext == AnalyzeContext

ContextSpec == ContextInit /\ [][ContextNext]_vars

-----------------------------------------------------------------------------
(* What the claims say, written from the claims and not from the code above *)

\* x is an element of the list s
InSeq(x, s) == \E i \in 1..Len(s) : s[i] = x

\* the deny-list of the specification: ; && || | backtick $ > <
DenyList ==
    { <<";">>, <<"&","&">>, <<"|","|">>, <<"|">>, <<BACKTICK>>, <<"$">>, <<">">>, <<"<">> }

HasDenied(text) == \E d \in DenyList : contains(text, d)

\* the trimmed text starts with the tool's name
NamesTool(text) == text # <<>> /\ startswith(strip(text), git)

\* the text passes steps 1 to 3 of the executor's validation
PassesValidation(text) == NamesTool(text) /\ ~HasDenied(text)

\* the destructive table of the specification, with the warning of each key
ClaimTable ==
    << <<key_reset_hard,  "(!)  This will discard all uncommitted changes">>,
       <<key_clean_f,     "(!)  This will delete untracked files permanently">>,
       <<key_push_force,  "(!)  This will overwrite remote history">>,
       <<kw_rebase,       "(!)  This will rewrite commit history">>,
       <<key_cherry_pick, "(!)  This may create conflicts">>,
       <<key_merge_no_ff, "(!)  This will create a merge commit">> >>

ClaimMatches(text) == SelectSeq(ClaimTable, LAMBDA e : contains(lower(text), e[1]))

ClaimDestructive(text) == ClaimMatches(text) # <<>>

ClaimWarnings(text) == [i \in 1..Len(ClaimMatches(text)) |-> ClaimMatches(text)[i][2]]

would_execute == <<"w","o","u","l","d"," ","e","x","e","c","u","t","e",":"," ">>

IsFailure(d) == ~d.success /\ ~d.executed

-----------------------------------------------------------------------------
(* C1 *)

-----------------------------------------------------------------------------
(* C2 *)

\* C2: in a run of main, with --dry-run or without, no command line handed to
\* subprocess.run contains a string of the deny-list
C2_SpawnedPassedDenyList ==
    \A i \in 1..Len(spawned) : ~HasDenied(spawned[i].command)

C2_Witness ==
    /\ pc = "done"
    /\ call.op = "execute"
    /\ Len(spawned) = 1
    /\ spawned[1].started
    /\ spawned[1].command = strip(cli.command)

-----------------------------------------------------------------------------
(* C3 *)

\* C3 as stated: for a command that passes validation, execute with dry_run
\* returns success, not executed, spawns nothing, and the output is
\* "would execute: " and the normalized command. The texts are compared
\* without regard to letter case: the code writes "Would execute: ".
C3_DryRunPreview ==
    (call.op = "execute" /\ call.dry_run /\ PassesValidation(call.command))
        => /\ result.kind = "return"
           /\ result.dict.success
           /\ ~result.dict.executed
           /\ spawned = <<>>
           /\ lower(result.dict.output) = would_execute \o lower(strip(call.command))

-----------------------------------------------------------------------------
(* C4 *)

\* C4 as stated: a call of execute with dry_run leaves the repository as it
\* was, the remote-tracking references included
C4_DryRunWritesNothing ==
    [][(pc = "idle" /\ call'.op = "execute" /\ call'.dry_run) => repo' = repo]_vars

-----------------------------------------------------------------------------
(* C5 *)

\* C5 as stated: execute("reset --hard", dry_run) on a dirty tree returns
\* success, not executed, "would execute: git reset --hard" (letter case
\* aside), and both the hard-reset warning and the uncommitted-changes warning
C5_ResetHardOnDirtyTree ==
    (call.op = "execute" /\ call.dry_run /\ call.command = key_reset_hard
     /\ repo.kind = "ok" /\ repo.is_dirty)
        => /\ result.kind = "return"
           /\ result.dict.success
           /\ ~result.dict.executed
           /\ lower(result.dict.output) = would_execute \o git \o <<" ">> \o key_reset_hard
           /\ InSeq("(!)  This will discard all uncommitted changes", result.warnings)
           /\ InSeq("You have uncommitted changes. Consider stashing them first.",
                    result.warnings)

-----------------------------------------------------------------------------
(* C6 *)

\* C6: an empty command, and a command whose trimmed text does not start with
\* git, gets the failure result, raises nothing and spawns nothing, whatever
\* else it contains and for both values of dry_run
C6_InvalidFailsFirst ==
    (call.op = "execute" /\ ~NamesTool(call.command))
        => /\ result.kind = "return"
           /\ IsFailure(result.dict)
           /\ result.dict.error = "Invalid Git command"
           /\ spawned = <<>>

C6_Witness ==
    /\ call.op = "execute"
    /\ ~call.dry_run
    /\ ~NamesTool(call.command)
    /\ HasDenied(call.command)
    /\ result.kind = "return"
    /\ IsFailure(result.dict)

-----------------------------------------------------------------------------
(* C7 *)

\* C7 as stated: for a text with no deny-list character, the empty and the
\* whitespace-only text included, normalizing the normalized text changes nothing
C7_NormalizeIdempotent ==
    (ret.op = "_clean_command" /\ ~HasDenied(arg))
        => /\ ~ret.out.raised
           /\ _clean_command(ret.out.value) = ret.out

-----------------------------------------------------------------------------
(* C8 *)

\* C8: is_destructive_command is true iff the lower-cased command contains a
\* key of the table; _check_destructive_operations returns one warning per
\* matched key, in the table's order; destructive iff the list is not empty
C8_DestructiveClassification ==
    /\ ret.op = "is_destructive_command"
         => /\ ret.out <=> ClaimDestructive(arg)
            /\ ret.out <=> (_check_destructive_operations(arg) # <<>>)
    /\ ret.op = "_check_destructive_operations"
         => /\ ret.out = ClaimWarnings(arg)
            /\ (ret.out # <<>>) <=> is_destructive_command(arg)

C8_Witness ==
    /\ ret.op = "_check_destructive_operations"
    /\ Len(ret.out) = 2
    /\ arg # lower(arg)

-----------------------------------------------------------------------------
(* C9 *)

\* the local branch is behind its remote, as the snapshot of the call saw it
ClaimBehind == repo.remote = "ok" /\ repo.tracking > 0

\* C9 as stated, on the contexts whose remote status was read: the
\* uncommitted-changes warning is given iff the tree is dirty and the command
\* is destructive by the table or a pull; the behind-remote warning iff the
\* branch is behind and the command is destructive by the table or a push
C9_ContextWarnings ==
    (call.op = "get_context_warnings" /\ repo.kind = "ok" /\ repo.remote = "ok")
        => /\ result.kind = "return"
           /\ InSeq("You have uncommitted changes. Consider stashing them first.",
                    result.warnings)
                <=> (repo.is_dirty /\ (ClaimDestructive(call.command)
                                       \/ contains(lower(call.command), kw_pull)))
           /\ InSeq("Your branch is behind remote. Consider pulling first.",
                    result.warnings)
                <=> (ClaimBehind /\ (ClaimDestructive(call.command)
                                     \/ contains(lower(call.command), kw_push)))

-----------------------------------------------------------------------------
(* C10 *)

\* C10 as stated: with has_remote false in the snapshot, get_context_warnings
\* and execute return for every valid command, without the behind-remote warning
C10_DegradedRemoteNotFatal ==
    (/\ call.op \in {"execute", "get_context_warnings"}
     /\ PassesValidation(call.command)
     /\ repo.kind = "ok"
     /\ repo.remote # "ok")
        => /\ result.kind = "return"
           /\ ~InSeq("Your branch is behind remote. Consider pulling first.",
                     result.warnings)

\* the error of the specification for a path that is no repository
ClaimNotARepository == [error |-> "Not a Git repository"]

\* C11 as stated: on a path that is no repository analyze_context, the health
\* statistics and the health report return only the not-a-repository error,
\* and execute spawns no subprocess, whatever the command
C11_NotARepoShortCircuits ==
    repo.kind = "not_repo"
        => /\ analyze_context(repo).context = ClaimNotARepository
           /\ get_repository_health_stats(repo, Stats(0, 0, 0, FALSE, 0))
                  = ClaimNotARepository
           /\ get_comprehensive_health_report(repo, Stats(0, 0, 0, FALSE, 0))
                  = ClaimNotARepository
           /\ spawned = <<>>

Exited == spawned # <<>> /\ spawned[Len(spawned)].outcome.kind = "exit"

LastOutcome == IF spawned = <<>> THEN "none" ELSE spawned[Len(spawned)].outcome.kind

\* C14: when the subprocess outlives the 30 seconds execute does not raise and
\* returns success false, executed false and the error "Command timed out after
\* 30 seconds"; when the process cannot be started or another failure of the
\* system occurs it returns success false, executed false and the wrapped error
C14_TimeoutAndSpawnFailure ==
    (call.op = "execute" /\ LastOutcome \in {"timeout", "oserror"})
        => /\ result.kind = "return"
           /\ IsFailure(result.dict)
           /\ LastOutcome = "timeout"
                  => result.dict.error = "Command timed out after 30 seconds"
           /\ LastOutcome = "oserror"
                  => result.dict.error = "Command execution failed"

\* a subprocess that outlived the 30 seconds, and the result returned for it
C14_Witness ==
    /\ call.op = "execute"
    /\ LastOutcome = "timeout"
    /\ spawned[Len(spawned)].started
    /\ result.kind = "return"
    /\ result.dict.error = "Command timed out after 30 seconds"

\* the last subprocess timed out, could not be started or exited with a
\* non-zero code
LastFailed ==
    /\ spawned # <<>>
    /\ LET o == spawned[Len(spawned)].outcome
       IN  o.kind \in {"timeout", "oserror"} \/ (o.kind = "exit" /\ o.returncode # 0)

\* C15: in one run of main at most one subprocess is spawned, for the
\* generated command; after a timeout, a spawn failure or a non-zero exit the
\* result reports the failure, and no step spawns a subprocess again
C15_NoRetry ==
    /\ [](/\ Len(spawned) <= 1
          /\ spawned # <<>> => spawned[1].command = strip(cli.command)
          /\ LastFailed => result.kind = "return" /\ ~result.dict.success)
    /\ [][spawned # <<>> => spawned' = spawned]_vars

\* main has finished after a subprocess that failed
C15_Witness ==
    /\ pc = "done"
    /\ LastFailed
    /\ Len(spawned) = 1
    /\ ~result.dict.success

\* C16: in main a destructive command reaches the executor only when --yes was
\* given or the user confirmed the question; when the user declines, no
\* subprocess is spawned and nothing is written to the command history
C16_DestructiveNeedsConsent ==
    /\ [][(call.op = "none" /\ call'.op = "execute" /\ ClaimDestructive(cli.command))
              => (cli.yes \/ pc = "confirmed")]_vars
    /\ [](pc = "cancelled"
              => /\ call.op = "none"
                 /\ spawned = <<>>
                 /\ historyFile = <<>>
                 /\ execHistory = <<>>
                 /\ cliHistory = <<>>)

\* the user declined a destructive command
C16_Witness ==
    /\ pc = "cancelled"
    /\ ClaimDestructive(cli.command)
    /\ ~cli.yes
    /\ ~cli.dry_run
    /\ spawned = <<>>
    /\ historyFile = <<>>

\* the command-history events emitted in this run: the calls of log_command of
\* the executor's logger and of main's logger (both histories start empty)
EventsEmitted == Len(execHistory) + Len(cliHistory)

\* C17 as stated: a command executed through main emits exactly one
\* command-history event; a command that is previewed, rejected by validation
\* or cancelled emits none
C17_OneEventPerExecutedCommand ==
    /\ (pc = "done" /\ call.op = "execute" /\ result.dict.executed)
           => EventsEmitted = 1
    /\ (\/ pc = "done" /\ call.op = "preview_command"
        \/ pc = "cancelled"
        \/ pc \in {"done", "crashed"} /\ call.op = "execute"
               /\ ~PassesValidation(call.command))
           => EventsEmitted = 0

RECURSIVE IsSubsequence(_, _)
\* the entries of s are in t, in the order of s
IsSubsequence(s, t) ==
    IF s = <<>> THEN TRUE
    ELSE IF t = <<>> THEN FALSE
    ELSE IF Head(s) = Head(t) THEN IsSubsequence(Tail(s), Tail(t))
    ELSE IsSubsequence(s, Tail(t))

\* C18 as stated: the history file is append-only. Every entry of a logger's
\* list was read from the file or written to it by that logger, so every such
\* entry is still in the file, in its order
C18_HistoryAppendOnly ==
    /\ IsSubsequence(execHistory, historyFile)
    /\ IsSubsequence(cliHistory, historyFile)

\* the scores returned by _calculate_health_scores in this state
ScoresReturned == ret.op = "_calculate_health_scores"

IsScore(n) == n \in 0..100

\* n is the integer nearest to tenths / 10, the even one of two
ClaimRounded(n, tenths) ==
    \/ 2 * (10 * n - tenths) < 10 /\ 2 * (tenths - 10 * n) < 10
    \/ 2 * (10 * n - tenths) = 10 /\ n % 2 = 0
    \/ 2 * (tenths - 10 * n) = 10 /\ n % 2 = 0

\* C19: for all inputs the overall score is round(0.2 * size + 0.3 * activity
\* + 0.3 * security + 0.2 * performance), every sub-score and the overall score
\* is an integer from 0 to 100, and the scores 100, 80, 100, 75 give 89
C19_OverallScore ==
    ScoresReturned
        => LET s == ret.out
           IN  /\ ClaimRounded(s.overall_score,
                               2 * s.size_score + 3 * s.activity_score
                                   + 3 * s.security_score + 2 * s.performance_score)
               /\ IsScore(s.overall_score)
               /\ IsScore(s.size_score)
               /\ IsScore(s.activity_score)
               /\ IsScore(s.security_score)
               /\ IsScore(s.performance_score)
               /\ (s.size_score = 100 /\ s.activity_score = 80
                       /\ s.security_score = 100 /\ s.performance_score = 75)
                      => s.overall_score = 89

\* the scores of the fixture: 100, 80, 100 and 75 give 89
C19_Witness ==
    /\ ScoresReturned
    /\ ret.out.size_score = 100
    /\ ret.out.activity_score = 80
    /\ ret.out.security_score = 100
    /\ ret.out.performance_score = 75
    /\ ret.out.overall_score = 89

\* the step functions of the specification, on megabytes and ratios counted
\* in hundredths
ClaimSizeScore(hundredths_mb) ==
    IF hundredths_mb < 5000 THEN 100
    ELSE IF hundredths_mb < 20000 THEN 80
    ELSE IF hundredths_mb < 50000 THEN 60
    ELSE IF hundredths_mb < 100000 THEN 40
    ELSE 20

ClaimActivityScore(commits) ==
    IF commits > 10 THEN 100 ELSE IF commits > 5 THEN 80 ELSE IF commits > 0 THEN 60 ELSE 30

ClaimSecurityScore(issues) ==
    IF issues = 0 THEN 100 ELSE IF issues < 3 THEN 70 ELSE IF issues < 6 THEN 50 ELSE 20

ClaimPerformanceScore(ignore_file, hundredths_ratio) ==
    LET sum == 50 + (IF ignore_file THEN 25 ELSE 0)
                  + (IF hundredths_ratio > 80 THEN 25 ELSE 0)
    IN  IF sum > 100 THEN 100 ELSE sum

\* C20: each sub-score is the step function of its raw input, boundaries
\* included: size below 50 MB 100, below 200 80, below 500 60, below 1000 40,
\* else 20; commits of the last week above 10 100, above 5 80, above 0 60, else
\* 30; no security issue 100, fewer than 3 70, fewer than 6 50, else 20;
\* performance 50, plus 25 with an ignore file, plus 25 with a tracking ratio
\* above 0.8, at most 100
C20_StepFunctions ==
    (ScoresReturned /\ "total_size_mb" \in DOMAIN arg.repo_size)
        => /\ ret.out.size_score = ClaimSizeScore(arg.repo_size.total_size_mb)
           /\ ret.out.activity_score
                  = ClaimActivityScore(arg.commit_activity.commits_last_week)
           /\ ret.out.security_score = ClaimSecurityScore(arg.security_issues)
           /\ ret.out.performance_score
                  = ClaimPerformanceScore(arg.performance_metrics.has_gitignore,
                                          arg.performance_metrics.tracking_ratio)

\* every raw input on a boundary: 50 MB, 10 commits, 3 issues, a ratio of 0.8
C20_Witness ==
    /\ ScoresReturned
    /\ "total_size_mb" \in DOMAIN arg.repo_size
    /\ arg.repo_size.total_size_mb = 5000
    /\ arg.commit_activity.commits_last_week = 10
    /\ arg.security_issues = 3
    /\ arg.performance_metrics.has_gitignore
    /\ arg.performance_metrics.tracking_ratio = 80
    /\ ret.out.size_score = 80
    /\ ret.out.activity_score = 80
    /\ ret.out.security_score = 50
    /\ ret.out.performance_score = 75

\* the number of issues of the list with the severity
ClaimCount(issues, severity) ==
    Cardinality({i \in DOMAIN issues : issues[i].severity = severity})

\* max(100 - 30 * high - 15 * medium - 5 * low, 0)
ClaimWeighted(issues) ==
    LET raw == 100 - 30 * ClaimCount(issues, "high") - 15 * ClaimCount(issues, "medium")
                   - 5 * ClaimCount(issues, "low")
    IN  IF raw < 0 THEN 0 ELSE raw

\* C21: for every list of issues the weighted security score is
\* max(100 - 30 * high - 15 * medium - 5 * low, 0); two high issues and one
\* medium issue give 25; without issues the weighted score and the bucket
\* score are both 100
C21_WeightedSecurityScore ==
    /\ ret.op = "_calculate_security_score"
           => /\ ret.out = ClaimWeighted(arg.issues)
              /\ (ClaimCount(arg.issues, "high") = 2
                      /\ ClaimCount(arg.issues, "medium") = 1
                      /\ Len(arg.issues) = 3)
                     => ret.out = 25
              /\ arg.issues = <<>> => ret.out = 100
    /\ (ret.op = "_calculate_health_scores" /\ arg.issues = <<>>)
           => ret.out.security_score = 100

\* four high issues: the floor at 0 is reached
C21_Witness ==
    /\ ret.op = "_calculate_security_score"
    /\ ClaimCount(arg.issues, "high") = 4
    /\ ret.out = 0

\* the report of a repository, made without a text generator
ReportReturned ==
    ret.op = "get_comprehensive_health_report" /\ "error" \notin DOMAIN ret.out

ClaimReduceLargeFiles == "Consider cleaning up large files or using Git LFS"
ClaimFixSecurity == "Review and fix security issues found in the repository"
ClaimAddIgnoreFile == "Add a .gitignore file to improve repository performance"

\* C22: without a text generator the fallback's recommendations hold the
\* large-files text exactly when size_score < 60, the security text exactly
\* when security_score < 80 and the ignore-file text exactly when the ignore
\* file is missing, each once and nothing else
C22_FallbackRecommendations ==
    ReportReturned
        => LET recs == ret.out.ai_analysis.recommendations
               Times(x) == Cardinality({i \in DOMAIN recs : recs[i] = x})
           IN  /\ Times(ClaimReduceLargeFiles)
                      = IF ret.out.scores.size_score < 60 THEN 1 ELSE 0
               /\ Times(ClaimFixSecurity)
                      = IF ret.out.scores.security_score < 80 THEN 1 ELSE 0
               /\ Times(ClaimAddIgnoreFile)
                      = IF ret.out.stats.performance_metrics.has_gitignore THEN 0 ELSE 1
               /\ \A i \in DOMAIN recs :
                      recs[i] \in {ClaimReduceLargeFiles, ClaimFixSecurity,
                                   ClaimAddIgnoreFile}

\* a large repository with security issues and no ignore file: all three texts
C22_Witness ==
    /\ ReportReturned
    /\ ret.out.scores.size_score = 40
    /\ ret.out.scores.security_score = 70
    /\ ~ret.out.stats.performance_metrics.has_gitignore
    /\ Len(ret.out.ai_analysis.recommendations) = 3

\* analyze_context returned a context, not an error
ContextReturned == ret.op = "analyze_context" /\ "error" \notin DOMAIN ret.out

\* C23: in every context analyze_context returns, the staged, unstaged,
\* untracked and stash counts and the ahead and behind counts are not
\* negative, and up_to_date holds exactly when ahead and behind are both 0
C23_ContextCounts ==
    ContextReturned
        => /\ ret.out.staged_files >= 0
           /\ ret.out.unstaged_files >= 0
           /\ ret.out.untracked_files >= 0
           /\ ret.out.stash_count >= 0
           /\ ret.out.remote_status.has_remote
                  => /\ ret.out.remote_status.ahead >= 0
                     /\ ret.out.remote_status.behind >= 0
                     /\ ret.out.remote_status.up_to_date
                            <=> (ret.out.remote_status.ahead = 0
                                     /\ ret.out.remote_status.behind = 0)

\* a branch that is behind its remote and not ahead of it: not up to date
C23_Witness ==
    /\ ContextReturned
    /\ ret.out.remote_status.has_remote
    /\ ret.out.remote_status.ahead = 0
    /\ ret.out.remote_status.behind > 0
    /\ ~ret.out.remote_status.up_to_date

\* the lookup of the remote status fails: no remote named origin, a fetch that
\* raises, or no ref of the branch on the remote
LookupFails == repo.kind = "ok" /\ repo.remote \in {"none", "fetch_fail", "no_ref"}

\* the keys of a full context, as far as the model has them
ClaimContextKeys ==
    {"is_dirty", "staged_files", "unstaged_files", "untracked_files",
     "remote_status", "stash_count"}

\* C24: when the lookup of the remote status fails, whatever the reason, the
\* error is not passed on: the remote status is exactly has_remote = false and
\* analyze_context returns a full context and no error value
C24_RemoteLookupDegrades ==
    (ret.op = "analyze_context" /\ LookupFails)
        => /\ "error" \notin DOMAIN ret.out
           /\ DOMAIN ret.out = ClaimContextKeys
           /\ ret.out.remote_status = [has_remote |-> FALSE]

\* a fetch that raised, and the context returned after it
C24_Witness ==
    /\ ret.op = "analyze_context"
    /\ repo.kind = "ok"
    /\ repo.remote = "fetch_fail"
    /\ "error" \notin DOMAIN ret.out
    /\ ~ret.out.remote_status.has_remote

\* the place of a pass in the scan: secrets, then file names, then configuration
ClaimPass(issue) ==
    CASE issue.type = "potential_secret" -> 1
      [] issue.type = "sensitive_files" -> 2
      [] issue.type = "configuration" -> 3
      [] OTHER -> 4

ClaimSecretTypes == <<"API Key", "Secret Key", "Password", "Token">>

\* C25: the issue list of the scan is the secret-pattern issues, then the
\* sensitive-filename issues, then the configuration issues; the secret pass
\* gives at most one issue per file, for the first pattern that matches, and
\* each of its issues has severity high
C25_ScanOrder ==
    ret.op = "get_security_scan_results"
        => LET issues == ret.out.security_issues
               secrets == {i \in DOMAIN issues : issues[i].type = "potential_secret"}
           IN  /\ \A i, j \in DOMAIN issues :
                      i < j => ClaimPass(issues[i]) <= ClaimPass(issues[j])
               /\ \A i \in DOMAIN issues : ClaimPass(issues[i]) <= 3
               /\ \A i, j \in secrets : issues[i].file = issues[j].file => i = j
               /\ \A i \in secrets :
                      /\ issues[i].severity = "high"
                      /\ issues[i].file \in DOMAIN arg.tree
                      /\ \E k \in arg.tree[issues[i].file].matches :
                             /\ issues[i].description = ClaimSecretTypes[k]
                             /\ \A m \in arg.tree[issues[i].file].matches : k <= m

\* a file whose content matches two patterns, a key file, and no remote: one
\* issue of each pass
C25_Witness ==
    /\ ret.op = "get_security_scan_results"
    /\ Len(arg.tree) = 2
    /\ Cardinality(arg.tree[1].matches) = 2
    /\ Len(ret.out.security_issues) = 3
    /\ ret.out.security_issues[1].type = "potential_secret"
    /\ ret.out.security_issues[2].type = "sensitive_files"
    /\ ret.out.security_issues[3].type = "configuration"

RECURSIVE ClaimFirstWord(_)
\* the first word of a text: what stands before the first whitespace, the
\* whitespace in front left out
ClaimFirstWord(text) ==
    IF text = <<>> THEN <<>>
    ELSE IF Head(text) \in {" ", "\t", "\n"} THEN ClaimFirstWord(Tail(text))
    ELSE LET blanks == {i \in 1..Len(text) : text[i] \in {" ", "\t", "\n"}}
         IN  IF blanks = {} THEN text
             ELSE SubSeq(text, 1, (CHOOSE i \in blanks : \A j \in blanks : i <= j) - 1)

\* C26 as stated, in a repository: the first word of every command line
\* handed to the subprocess is exactly git
C26_FirstWordIsGit ==
    repo.kind = "ok"
        => \A i \in DOMAIN spawned :
               ClaimFirstWord(spawned[i].command) = <<"g","i","t">>

\* what makes the shell chain, background or start a second command
ClaimShellConstructs ==
    { <<";">>, <<"&">>, <<"|">>, <<"\n">>, <<BACKTICK>>, <<"$">> }

\* C27 as stated, in a repository: a command line that passed the deny-list
\* and is run through the shell holds no construct that chains, backgrounds or
\* starts a second command, such as a lone & or a line break
C27_SingleInvocation ==
    repo.kind = "ok"
        => \A i \in DOMAIN spawned :
               \A c \in ClaimShellConstructs : ~contains(spawned[i].command, c)

\* C28 as stated, for a git command in a repository: when execute returns a
\* result with executed = false, no subprocess was started during the call
C28_NotExecutedNotSpawned ==
    (/\ call.op = "execute"
     /\ result.kind = "return"
     /\ ~result.dict.executed
     /\ repo.kind = "ok"
     /\ ClaimFirstWord(call.command) = <<"g","i","t">>
     /\ \A c \in ClaimShellConstructs : ~contains(call.command, c))
        => \A i \in DOMAIN spawned : ~spawned[i].started

\* how often a text is in a list
ClaimTimes(x, s) == Cardinality({i \in DOMAIN s : s[i] = x})

\* C29 as stated: the list get_context_warnings returns for a command holds the
\* uncommitted-changes warning at most once and the behind-remote warning at
\* most once
C29_NoDuplicateWarnings ==
    (call.op = "get_context_warnings" /\ result.kind = "return")
        => /\ ClaimTimes("You have uncommitted changes. Consider stashing them first.",
                         result.warnings) <= 1
           /\ ClaimTimes("Your branch is behind remote. Consider pulling first.",
                         result.warnings) <= 1

\* ten times 0.2 * size + 0.3 * activity + 0.3 * security + 0.2 * performance
ClaimTenfoldSum(s) ==
    2 * s.size_score + 3 * s.activity_score + 3 * s.security_score
        + 2 * s.performance_score

\* the five scores are 0
ClaimAllZero(s) ==
    /\ s.overall_score = 0
    /\ s.size_score = 0
    /\ s.activity_score = 0
    /\ s.security_score = 0
    /\ s.performance_score = 0

\* C30: for every combination of sub-scores the bucket functions produce, the
\* weighted sum is a whole number, so the overall score is that sum unrounded,
\* and it lies between 29 and 100; an overall score of 0 occurs only on the
\* exception fallback, where all five scores are 0
C30_WholeWeightedSum ==
    ScoresReturned
        => /\ "total_size_mb" \in DOMAIN arg.repo_size
                  => /\ ClaimTenfoldSum(ret.out) % 10 = 0
                     /\ 10 * ret.out.overall_score = ClaimTenfoldSum(ret.out)
                     /\ ret.out.overall_score \in 29..100
           /\ ret.out.overall_score = 0
                  => /\ "total_size_mb" \notin DOMAIN arg.repo_size
                     /\ ClaimAllZero(ret.out)

\* the lowest scores of all four buckets: 20, 30, 20 and 50 give 29
C30_Witness ==
    /\ ScoresReturned
    /\ ret.out.size_score = 20
    /\ ret.out.activity_score = 30
    /\ ret.out.security_score = 20
    /\ ret.out.performance_score = 50
    /\ ret.out.overall_score = 29

====
